---------------------------- MODULE Spec2Model ----------------------------
(***************************************************************************)
(* Model of src/src/protocol.rs: the length-prefixed framing protocol.     *)
(*                                                                         *)
(* Wide integers.  TLC's integers are 32 bits wide, so u32 and u64 values  *)
(* are kept as big-endian tuples of 16-bit limbs: a u16 is a number in     *)
(* 0..65535, a u32 is <<hi, lo>>, a u64 is <<l1, l2, l3, l4>>.  A byte is  *)
(* a number in 0..255 and a byte buffer is a sequence of bytes.            *)
(***************************************************************************)
EXTENDS Integers, Sequences, FiniteSets, TLC

VARIABLES
    stream,   \* bytes held by the Transport, oldest first
    pc,       \* position of recv_frame: "idle" or "payload" (header read)
    hdr,      \* header decoded by the recv_frame in progress
    start,    \* the stream when the recv_frame in progress was called
    calls,    \* Transport calls issued by the current / last invocation
    result,   \* record of the last completed send_frame / recv_frame
    prev,     \* for a recv_frame in result: the invocation completed before it
    sent,     \* frames sent in a row (SpecSeq)
    got,      \* what the recv_frame calls after them returned (SpecSeq)
    cop,      \* codec operation applied last (pure-function checks)
    cin,      \* its input
    cout      \* its output

vars == <<stream, pc, hdr, start, calls, result, prev, sent, got, cop, cin, cout>>
tvars == <<stream, pc, hdr, start, calls, result, prev, sent, got>>
cvars == <<cop, cin, cout>>
gvars == <<sent, got>>

---------------------------------------------------------------------------
(* Bounds of the model *)

MaxPayload == 2      \* longest payload of a frame handed to send_frame
MaxStream == 8        \* most bytes the FIFO Transport holds
MaxPreload == 8       \* most bytes a Transport stub is loaded with
MaxFrames == 2        \* most frames sent in a row
MaxBlocks == 3        \* most 6-byte blocks a Transport stub is loaded with
MaxIds == 2          \* longest id list of a GetBlocksPayload
MaxBuf == 17         \* longest buffer handed to a payload decoder
MaxHdrBuf == 7       \* longest buffer handed to decode_frame_header

(* Lengths fixed by the program *)

HeaderLen == 6
HelloLen == 12
IdLen == 8

---------------------------------------------------------------------------
(* Results: NetResult<T> *)

Ok(v) == [tag |-> "Ok", val |-> v]
Err(e) == [tag |-> "Err", val |-> e]
IsOk(r) == r.tag = "Ok"
IsErr(r) == r.tag = "Err"

InvalidFrame == "InvalidFrame"
DecodeError == "DecodeError"
TransportErrors == {"Closed", "Timeout"}

Unit == "unit"

---------------------------------------------------------------------------
(* Primitive codec *)

encode_u16(x) == <<x \div 256, x % 256>>

encode_u32_swapped(x) == encode_u16(x[2]) \o encode_u16(x[1])

encode_u32(x) == encode_u16(x[1]) \o encode_u16(x[2])

encode_u64_swapped(x) ==
    encode_u16(x[4]) \o encode_u16(x[3]) \o encode_u16(x[2]) \o encode_u16(x[1])

encode_u64(x) ==
    encode_u16(x[1]) \o encode_u16(x[2]) \o encode_u16(x[3]) \o encode_u16(x[4])

decode_u16(b) == b[1] * 256 + b[2]

decode_u32(b) == <<decode_u16(<<b[1], b[2]>>), decode_u16(<<b[3], b[4]>>)>>

decode_u64(b) ==
    <<decode_u16(<<b[1], b[2]>>), decode_u16(<<b[3], b[4]>>),
      decode_u16(<<b[5], b[6]>>), decode_u16(<<b[7], b[8]>>)>>

(* `x as usize' compared with a buffer length: lengths in the model are    *)
(* below 65536, so a u32 with a nonzero high limb exceeds all of them.     *)
LenIs(n, x) == x[1] = 0 /\ x[2] = n
AtMost(x, n) == x[1] = 0 /\ x[2] <= n
USize(x) == x[2]    \* meaningful only when x[1] = 0
U32Of(n) == <<0, n>>
U32Max == <<65535, 65535>>
U64Max == <<65535, 65535, 65535, 65535>>

---------------------------------------------------------------------------
(* Frame header codec *)

FrameKinds ==
    {"Hello", "Caps", "GetBlocks", "PushBlocks",
     "GetObject", "PushObject", "Ping", "Pong"}

KindByte_shifted(kind) ==
    CASE kind = "Hello"      -> 0
      [] kind = "Caps"       -> 1
      [] kind = "GetBlocks"  -> 2
      [] kind = "PushBlocks" -> 3
      [] kind = "GetObject"  -> 4
      [] kind = "PushObject" -> 5
      [] kind = "Ping"       -> 6
      [] kind = "Pong"       -> 7

KindByte(kind) ==
    CASE kind = "Hello"      -> 1
      [] kind = "Caps"       -> 2
      [] kind = "GetBlocks"  -> 3
      [] kind = "PushBlocks" -> 4
      [] kind = "GetObject"  -> 5
      [] kind = "PushObject" -> 6
      [] kind = "Ping"       -> 7
      [] kind = "Pong"       -> 8

FrameHeader(kind, flags, length) ==
    [kind |-> kind, flags |-> flags, length |-> length]

encode_frame_header(h) ==
    <<KindByte(h.kind), h.flags>> \o encode_u32(h.length)

decode_frame_header_lax(buf) ==
    IF Len(buf) < HeaderLen THEN Err(InvalidFrame)
    ELSE CASE buf[1] = 1 -> Ok(FrameHeader("Hello", buf[2], decode_u32(SubSeq(buf, 3, 6))))
           [] buf[1] = 2 -> Ok(FrameHeader("Caps", buf[2], decode_u32(SubSeq(buf, 3, 6))))
           [] buf[1] = 3 -> Ok(FrameHeader("GetBlocks", buf[2], decode_u32(SubSeq(buf, 3, 6))))
           [] buf[1] = 4 -> Ok(FrameHeader("PushBlocks", buf[2], decode_u32(SubSeq(buf, 3, 6))))
           [] buf[1] = 5 -> Ok(FrameHeader("GetObject", buf[2], decode_u32(SubSeq(buf, 3, 6))))
           [] buf[1] = 6 -> Ok(FrameHeader("PushObject", buf[2], decode_u32(SubSeq(buf, 3, 6))))
           [] buf[1] = 7 -> Ok(FrameHeader("Ping", buf[2], decode_u32(SubSeq(buf, 3, 6))))
           [] buf[1] = 8 -> Ok(FrameHeader("Pong", buf[2], decode_u32(SubSeq(buf, 3, 6))))
           [] OTHER      -> Ok(FrameHeader("Unknown", buf[2], decode_u32(SubSeq(buf, 3, 6))))

decode_frame_header(buf) ==
    IF Len(buf) < HeaderLen THEN Err(InvalidFrame)
    ELSE CASE buf[1] = 1 -> Ok(FrameHeader("Hello", buf[2], decode_u32(SubSeq(buf, 3, 6))))
           [] buf[1] = 2 -> Ok(FrameHeader("Caps", buf[2], decode_u32(SubSeq(buf, 3, 6))))
           [] buf[1] = 3 -> Ok(FrameHeader("GetBlocks", buf[2], decode_u32(SubSeq(buf, 3, 6))))
           [] buf[1] = 4 -> Ok(FrameHeader("PushBlocks", buf[2], decode_u32(SubSeq(buf, 3, 6))))
           [] buf[1] = 5 -> Ok(FrameHeader("GetObject", buf[2], decode_u32(SubSeq(buf, 3, 6))))
           [] buf[1] = 6 -> Ok(FrameHeader("PushObject", buf[2], decode_u32(SubSeq(buf, 3, 6))))
           [] buf[1] = 7 -> Ok(FrameHeader("Ping", buf[2], decode_u32(SubSeq(buf, 3, 6))))
           [] buf[1] = 8 -> Ok(FrameHeader("Pong", buf[2], decode_u32(SubSeq(buf, 3, 6))))
           [] OTHER      -> Err(InvalidFrame)

---------------------------------------------------------------------------
(* Frame codec *)

Frame(header, payload) == [header |-> header, payload |-> payload]

encode_frame_header_only(frame) == encode_frame_header(frame.header)

encode_frame(frame) == encode_frame_header(frame.header) \o frame.payload

decode_frame_inverted(header, payload) ==
    IF LenIs(Len(payload), header.length) THEN Err(InvalidFrame)
    ELSE Ok(Frame(header, payload))

decode_frame_unchecked(header, payload) == Ok(Frame(header, payload))

decode_frame(header, payload) ==
    IF ~LenIs(Len(payload), header.length) THEN Err(InvalidFrame)
    ELSE Ok(Frame(header, payload))

---------------------------------------------------------------------------
(* Payload codecs *)

HelloPayload(node, major, minor) ==
    [node |-> node, version |-> [major |-> major, minor |-> minor]]

encode_hello_minor_first(p) ==
    encode_u64(p.node) \o encode_u16(p.version.minor) \o encode_u16(p.version.major)

encode_hello(p) ==
    encode_u64(p.node) \o encode_u16(p.version.major) \o encode_u16(p.version.minor)

decode_hello(b) ==
    IF Len(b) < HelloLen THEN Err(DecodeError)
    ELSE Ok(HelloPayload(decode_u64(SubSeq(b, 1, 8)),
                         decode_u16(SubSeq(b, 9, 10)),
                         decode_u16(SubSeq(b, 11, 12))))

RECURSIVE encode_ids(_)
encode_ids(ids) ==
    IF ids = <<>> THEN <<>> ELSE encode_u64(Head(ids)) \o encode_ids(Tail(ids))

encode_get_blocks(p) == encode_ids(p.ids)

(* b.chunks(8): consecutive slices of 8 bytes, the last one shorter when   *)
(* the length is no multiple of 8.                                         *)
RECURSIVE chunks(_, _)
chunks(b, n) ==
    IF b = <<>> THEN <<>>
    ELSE IF Len(b) <= n THEN <<b>>
    ELSE <<SubSeq(b, 1, n)>> \o chunks(SubSeq(b, n + 1, Len(b)), n)

decode_get_blocks(b) ==
    IF Len(b) % IdLen # 0 THEN Err(DecodeError)
    ELSE LET cs == chunks(b, IdLen)
         IN Ok([ids |-> [i \in 1..Len(cs) |-> decode_u64(cs[i])]])

encode_push_blocks(p) == p.raw

decode_push_blocks(b) == Ok([raw |-> b])

encode_get_object(p) == encode_u64(p.id)

decode_get_object_lax(b) ==
    IF Len(b) < IdLen THEN Err(DecodeError)
    ELSE Ok([id |-> decode_u64(b)])

decode_get_object(b) ==
    IF Len(b) # IdLen THEN Err(DecodeError)
    ELSE Ok([id |-> decode_u64(b)])

encode_push_object(p) == p.raw

decode_push_object(b) == Ok([raw |-> b])

---------------------------------------------------------------------------
(* Inputs of the codec checks *)

U16Samples == {0, 1, 255, 256, 65535}
FlagSamples == {0, 1, 128, 255}
U32Samples == {<<h, l>> : h \in U16Samples, l \in U16Samples}
U64Limbs == {0, 258, 65535}
U64Samples == {<<a, b, c, d>> : a \in U64Limbs, b \in U64Limbs, c \in U64Limbs, d \in U64Limbs}
IdSamples ==
    {<<0, 0, 0, 0>>, <<0, 0, 0, 1>>, <<258, 772, 1286, 1800>>,
     <<65535, 0, 0, 0>>, <<65535, 65535, 65535, 65535>>}
RawBytes == {0, 1, 255}

SeqsUpTo(S, n) == UNION {[1..k -> S] : k \in 0..n}

Headers == {FrameHeader(k, f, l) : k \in FrameKinds, f \in FlagSamples, l \in U32Samples}

HelloPayloads == {HelloPayload(n, ma, mi) : n \in U64Samples, ma \in U16Samples, mi \in U16Samples}
GetBlocksPayloads == {[ids |-> s] : s \in SeqsUpTo(IdSamples, MaxIds)}
RawPayloads == {[raw |-> s] : s \in SeqsUpTo(RawBytes, MaxPayload + 1)}
GetObjectPayloads == {[id |-> i] : i \in U64Samples}

(* Buffers of every length up to n, filled with an arithmetic pattern *)
PatternBufs(n) ==
    {[i \in 1..k |-> (a * i + b) % 256] : k \in 0..n, a \in {0, 1, 37}, b \in {0, 200, 255}}

(* Header buffers: every first byte around the valid range, every length  *)
(* up to MaxHdrBuf, length fields over small and extreme bytes.            *)
KindBytes == 0..9 \cup {255}
LenBytes == {0, 1, 255}
HdrBufs ==
    {SubSeq(<<k, f, b[1], b[2], b[3], b[4]>> \o [i \in 1..(MaxHdrBuf - HeaderLen) |-> 170], 1, n) :
        k \in KindBytes, f \in {0, 255}, b \in [1..4 -> LenBytes], n \in 0..MaxHdrBuf}

---------------------------------------------------------------------------
(* The codec functions applied to inputs: one action per function or     *)
(* encode/decode pair, each applied once to an input drawn from its set.  *)

RoundTrip(wire, back) == [wire |-> wire, back |-> back]

HeaderRoundTrip ==
    \E h \in Headers :
        /\ cop = "none"
        /\ cop' = "header_round_trip"
        /\ cin' = h
        /\ cout' = RoundTrip(encode_frame_header(h),
                             decode_frame_header(encode_frame_header(h)))
        /\ UNCHANGED tvars

DecodeHeader ==
    \E b \in HdrBufs :
        /\ cop = "none"
        /\ cop' = "decode_frame_header"
        /\ cin' = b
        /\ cout' = decode_frame_header(b)
        /\ UNCHANGED tvars

HelloRoundTrip ==
    \E p \in HelloPayloads :
        /\ cop = "none"
        /\ cop' = "hello_round_trip"
        /\ cin' = p
        /\ cout' = RoundTrip(encode_hello(p), decode_hello(encode_hello(p)))
        /\ UNCHANGED tvars

GetBlocksRoundTrip ==
    \E p \in GetBlocksPayloads :
        /\ cop = "none"
        /\ cop' = "get_blocks_round_trip"
        /\ cin' = p
        /\ cout' = RoundTrip(encode_get_blocks(p), decode_get_blocks(encode_get_blocks(p)))
        /\ UNCHANGED tvars

PushBlocksRoundTrip ==
    \E p \in RawPayloads :
        /\ cop = "none"
        /\ cop' = "push_blocks_round_trip"
        /\ cin' = p
        /\ cout' = RoundTrip(encode_push_blocks(p), decode_push_blocks(encode_push_blocks(p)))
        /\ UNCHANGED tvars

GetObjectRoundTrip ==
    \E p \in GetObjectPayloads :
        /\ cop = "none"
        /\ cop' = "get_object_round_trip"
        /\ cin' = p
        /\ cout' = RoundTrip(encode_get_object(p), decode_get_object(encode_get_object(p)))
        /\ UNCHANGED tvars

PushObjectRoundTrip ==
    \E p \in RawPayloads :
        /\ cop = "none"
        /\ cop' = "push_object_round_trip"
        /\ cin' = p
        /\ cout' = RoundTrip(encode_push_object(p), decode_push_object(encode_push_object(p)))
        /\ UNCHANGED tvars

DecodeHello ==
    \E b \in PatternBufs(MaxBuf) :
        /\ cop = "none"
        /\ cop' = "decode_hello"
        /\ cin' = b
        /\ cout' = decode_hello(b)
        /\ UNCHANGED tvars

DecodeGetBlocks ==
    \E b \in PatternBufs(MaxBuf) :
        /\ cop = "none"
        /\ cop' = "decode_get_blocks"
        /\ cin' = b
        /\ cout' = decode_get_blocks(b)
        /\ UNCHANGED tvars

DecodePushBlocks ==
    \E b \in PatternBufs(MaxBuf) :
        /\ cop = "none"
        /\ cop' = "decode_push_blocks"
        /\ cin' = b
        /\ cout' = decode_push_blocks(b)
        /\ UNCHANGED tvars

DecodeGetObject ==
    \E b \in PatternBufs(MaxBuf) :
        /\ cop = "none"
        /\ cop' = "decode_get_object"
        /\ cin' = b
        /\ cout' = decode_get_object(b)
        /\ UNCHANGED tvars

DecodePushObject ==
    \E b \in PatternBufs(MaxBuf) :
        /\ cop = "none"
        /\ cop' = "decode_push_object"
        /\ cin' = b
        /\ cout' = decode_push_object(b)
        /\ UNCHANGED tvars

NoHeader == FrameHeader("none", 0, <<0, 0>>)
NoFrame == Frame(NoHeader, <<>>)
NoResult == [fn |-> "none", frame |-> NoFrame, pre |-> <<>>, val |-> Ok(Unit)]

TransportInit ==
    /\ stream = <<>>
    /\ pc = "idle"
    /\ hdr = NoHeader
    /\ start = <<>>
    /\ calls = <<>>
    /\ result = NoResult
    /\ prev = NoResult
    /\ sent = <<>>
    /\ got = <<>>

CodecInit ==
    /\ cop = "none"
    /\ cin = <<>>
    /\ cout = <<>>

Init == TransportInit /\ CodecInit

CodecNext ==
    \/ HeaderRoundTrip
    \/ DecodeHeader
    \/ HelloRoundTrip
    \/ GetBlocksRoundTrip
    \/ PushBlocksRoundTrip
    \/ GetObjectRoundTrip
    \/ PushObjectRoundTrip
    \/ DecodeHello
    \/ DecodeGetBlocks
    \/ DecodePushBlocks
    \/ DecodeGetObject
    \/ DecodePushObject

SpecCodec == Init /\ [][CodecNext]_vars

---------------------------------------------------------------------------
(* Frames handed to send_frame.  A caller builds a Frame directly, so      *)
(* header.length may differ from the payload's byte count.                 *)

FrameFlags == {0, 255}
(* Payloads of every length up to MaxPayload: bytes that are a kind code  *)
(* (7, 7, ...) and bytes that start with 0, which is none (0, 1, ...).     *)
Payloads ==
    {[i \in 1..n |-> 7] : n \in 0..MaxPayload} \cup {[i \in 1..n |-> i - 1] : n \in 0..MaxPayload}

ValidFrames ==
    {Frame(FrameHeader(k, f, U32Of(Len(p))), p) :
        k \in FrameKinds, f \in FrameFlags, p \in Payloads}

WrongLengths(p) == ({U32Of(n) : n \in 0..(MaxPayload + 1)} \cup {U32Max}) \ {U32Of(Len(p))}

InvalidFrames ==
    UNION {{Frame(FrameHeader(k, 0, l), p) : l \in WrongLengths(p)} :
        k \in {"Hello", "Pong"}, p \in Payloads}

Frames == ValidFrames \cup InvalidFrames

Valid(frame) ==
    /\ frame.header.kind \in FrameKinds
    /\ LenIs(Len(frame.payload), frame.header.length)

(* Bytes a Transport stub may be loaded with: 0 and 9 are no kind codes,   *)
(* 2 is the code of Caps, and as length bytes they give 0, 2 and more than *)
(* the stub holds.                                                         *)
WireBytes == {0, 2, 9}

---------------------------------------------------------------------------
(* Transport calls and the records kept of them *)

Call(op, arg, res) == [op |-> op, arg |-> arg, res |-> res]

Done(fn, frame, pre, val) == [fn |-> fn, frame |-> frame, pre |-> pre, val |-> val]

PropagateAsInvalid(e) == Err(InvalidFrame)

(* The `?' operator: an Err leaves the function as the same Err *)
Propagate(e) == Err(e)

send_calls_split(frame, res) ==
    <<Call("send", encode_frame_header(frame.header), res), Call("send", frame.payload, res)>>

(* send_frame: the Transport calls it issues for a frame *)
send_calls(frame, res) == <<Call("send", encode_frame(frame), res)>>

after_header_late(hdr_bytes) ==
    LET h == decode_frame_header(hdr_bytes)
    IN IF IsErr(h)
       THEN [pc |-> "payload",
             hdr |-> FrameHeader("Unknown", hdr_bytes[2], decode_u32(SubSeq(hdr_bytes, 3, 6))),
             val |-> Ok(Unit)]
       ELSE [pc |-> "payload", hdr |-> h.val, val |-> Ok(Unit)]

(* recv_frame after the header read returned hdr_bytes: the step it takes *)
after_header(hdr_bytes) ==
    LET h == decode_frame_header(hdr_bytes)
    IN IF IsErr(h) THEN [pc |-> "idle", hdr |-> NoHeader, val |-> Propagate(h.val)]
       ELSE [pc |-> "payload", hdr |-> h.val, val |-> Ok(Unit)]

(* A Transport error ends the use of a Transport: the model follows each  *)
(* Transport up to the first call on it that fails with such an error.     *)
Alive == ~(IsErr(result.val) /\ result.val.val \in TransportErrors)

(* send_frame(t, frame) on a Transport whose send succeeds: the FIFO      *)
(* appends the buffer to its stream.  The caller kept header.length equal  *)
(* to the payload's byte count.                                            *)
SendFrame ==
    \E frame \in ValidFrames :
        /\ pc = "idle"
        /\ Alive
        /\ Len(stream) + Len(encode_frame(frame)) <= MaxStream
        /\ stream' = stream \o encode_frame(frame)
        /\ calls' = send_calls(frame, Ok(Unit))
        /\ prev' = NoResult
        /\ result' = Done("send_frame", frame, stream, Ok(Unit))
        /\ UNCHANGED <<pc, hdr, start, cvars, gvars>>

SendFrameChecked ==
    \E frame \in InvalidFrames :
        /\ pc = "idle"
        /\ Alive
        /\ calls' = <<>>
        /\ prev' = NoResult
        /\ result' = Done("send_frame", frame, stream, Err(InvalidFrame))
        /\ UNCHANGED <<stream, pc, hdr, start, cvars, gvars>>

(* The same call with a Frame whose header.length the caller got wrong *)
SendFrameUnchecked ==
    \E frame \in InvalidFrames :
        /\ pc = "idle"
        /\ Alive
        /\ Len(stream) + Len(encode_frame(frame)) <= MaxStream
        /\ stream' = stream \o encode_frame(frame)
        /\ calls' = send_calls(frame, Ok(Unit))
        /\ prev' = NoResult
        /\ result' = Done("send_frame", frame, stream, Ok(Unit))
        /\ UNCHANGED <<pc, hdr, start, cvars, gvars>>

(* send_frame on a Transport whose send fails with e: nothing is delivered *)
SendFrameFail ==
    \E frame \in Frames, e \in TransportErrors :
        /\ pc = "idle"
        /\ Alive
        /\ calls' = send_calls(frame, Err(e))
        /\ prev' = NoResult
        /\ result' = Done("send_frame", frame, stream, Propagate(e))
        /\ UNCHANGED <<stream, pc, hdr, start, cvars, gvars>>

RecvHeaderRewind ==
    /\ pc = "idle"
    /\ Alive
    /\ Len(stream) >= HeaderLen
    /\ LET hdr_bytes == SubSeq(stream, 1, HeaderLen)
           step == after_header(hdr_bytes)
       IN /\ stream' = IF step.pc = "idle" THEN stream
                       ELSE SubSeq(stream, HeaderLen + 1, Len(stream))
          /\ calls' = <<Call("recv_exact", U32Of(HeaderLen), Ok(hdr_bytes))>>
          /\ pc' = step.pc
          /\ hdr' = step.hdr
          /\ start' = IF step.pc = "idle" THEN <<>> ELSE stream
          /\ IF step.pc = "idle"
             THEN /\ prev' = result
                  /\ result' = Done("recv_frame", NoFrame, stream, step.val)
             ELSE UNCHANGED <<result, prev>>
    /\ UNCHANGED <<cvars, gvars>>

(* recv_frame, first step: recv_exact(6) returns the next 6 bytes, and the  *)
(* header is decoded; a malformed header ends the call.                    *)
RecvHeader ==
    /\ pc = "idle"
    /\ Alive
    /\ Len(stream) >= HeaderLen
    /\ LET hdr_bytes == SubSeq(stream, 1, HeaderLen)
           step == after_header(hdr_bytes)
       IN /\ stream' = SubSeq(stream, HeaderLen + 1, Len(stream))
          /\ calls' = <<Call("recv_exact", U32Of(HeaderLen), Ok(hdr_bytes))>>
          /\ pc' = step.pc
          /\ hdr' = step.hdr
          /\ start' = IF step.pc = "idle" THEN <<>> ELSE stream
          /\ IF step.pc = "idle"
             THEN /\ prev' = result
                  /\ result' = Done("recv_frame", NoFrame, stream, step.val)
             ELSE UNCHANGED <<result, prev>>
    /\ UNCHANGED <<cvars, gvars>>

(* recv_frame, first step, on a loopback that holds fewer than 6 bytes:    *)
(* recv_exact cannot return 6 bytes, so it fails.                          *)
RecvHeaderEof ==
    /\ pc = "idle"
    /\ Alive
    /\ Len(stream) < HeaderLen
    /\ calls' = <<Call("recv_exact", U32Of(HeaderLen), Err("Eof"))>>
    /\ prev' = result
    /\ result' = Done("recv_frame", NoFrame, stream, Propagate("Eof"))
    /\ UNCHANGED <<stream, pc, hdr, start, cvars, gvars>>

(* recv_frame, first step, on a Transport whose recv_exact fails with e *)
RecvHeaderFail ==
    \E e \in TransportErrors :
        /\ pc = "idle"
        /\ Alive
        /\ calls' = <<Call("recv_exact", U32Of(HeaderLen), Err(e))>>
        /\ prev' = result
        /\ result' = Done("recv_frame", NoFrame, stream, Propagate(e))
        /\ UNCHANGED <<stream, pc, hdr, start, cvars, gvars>>

RecvPayloadPeek ==
    /\ pc = "payload"
    /\ Alive
    /\ AtMost(hdr.length, Len(stream))
    /\ LET payload == SubSeq(stream, 1, USize(hdr.length))
       IN /\ stream' = stream
          /\ calls' = Append(calls, Call("recv_exact", hdr.length, Ok(payload)))
          /\ prev' = result
          /\ result' = Done("recv_frame", NoFrame, start, decode_frame(hdr, payload))
    /\ pc' = "idle"
    /\ hdr' = NoHeader
    /\ start' = <<>>
    /\ UNCHANGED <<cvars, gvars>>

(* recv_frame, second step: recv_exact(header.length) returns the next     *)
(* header.length bytes and decode_frame builds the Frame.                  *)
RecvPayload ==
    /\ pc = "payload"
    /\ Alive
    /\ AtMost(hdr.length, Len(stream))
    /\ LET payload == SubSeq(stream, 1, USize(hdr.length))
       IN /\ stream' = SubSeq(stream, USize(hdr.length) + 1, Len(stream))
          /\ calls' = Append(calls, Call("recv_exact", hdr.length, Ok(payload)))
          /\ prev' = result
          /\ result' = Done("recv_frame", NoFrame, start, decode_frame(hdr, payload))
    /\ pc' = "idle"
    /\ hdr' = NoHeader
    /\ start' = <<>>
    /\ UNCHANGED <<cvars, gvars>>

(* recv_frame, second step, on a loopback that holds fewer bytes than      *)
(* header.length: recv_exact fails.                                        *)
RecvPayloadEof ==
    /\ pc = "payload"
    /\ Alive
    /\ ~AtMost(hdr.length, Len(stream))
    /\ calls' = Append(calls, Call("recv_exact", hdr.length, Err("Eof")))
    /\ prev' = result
    /\ result' = Done("recv_frame", NoFrame, start, Propagate("Eof"))
    /\ pc' = "idle"
    /\ hdr' = NoHeader
    /\ start' = <<>>
    /\ UNCHANGED <<stream, cvars, gvars>>

(* recv_frame, second step, on a Transport whose recv_exact fails with e *)
RecvPayloadFail ==
    \E e \in TransportErrors :
        /\ pc = "payload"
        /\ Alive
        /\ calls' = Append(calls, Call("recv_exact", hdr.length, Err(e)))
        /\ prev' = result
        /\ result' = Done("recv_frame", NoFrame, start, Propagate(e))
        /\ pc' = "idle"
        /\ hdr' = NoHeader
        /\ start' = <<>>
        /\ UNCHANGED <<stream, cvars, gvars>>

(* A Transport stub is loaded with bytes before the first call on it *)
Preload ==
    \E b \in WireBytes :
        /\ pc = "idle"
        /\ result.fn = "none"
        /\ Len(stream) < MaxPreload
        /\ stream' = Append(stream, b)
        /\ UNCHANGED <<pc, hdr, start, calls, result, prev, cvars, gvars>>

(* A Transport stub loaded with whole 6-byte blocks: headers of a known or *)
(* an unknown kind announcing 0, 2 or 6 payload bytes, and a block whose   *)
(* length field is larger than any stream.                                 *)
BlockLens == {0, 2, 6}
HeaderBlocks ==
    {<<k, 0, 0, 0, 0, n>> : k \in WireBytes, n \in BlockLens} \cup {<<1, 2, 3, 4, 5, 6>>}

PreloadBlock ==
    \E b \in HeaderBlocks :
        /\ pc = "idle"
        /\ result.fn = "none"
        /\ Len(stream) + HeaderLen <= MaxBlocks * HeaderLen
        /\ stream' = stream \o b
        /\ UNCHANGED <<pc, hdr, start, calls, result, prev, cvars, gvars>>

(* A FIFO Transport that delivers what was sent, and whose calls succeed   *)
(* or fail as the Transport contract allows.                               *)
Next ==
    \/ SendFrame
    \/ SendFrameFail
    \/ RecvHeader
    \/ RecvHeaderFail
    \/ RecvPayload
    \/ RecvPayloadFail

Spec == Init /\ [][Next]_vars

(* The loopback Transport: a FIFO buffer that fails only when it runs dry *)
LoopNext ==
    \/ SendFrame
    \/ SendFrameUnchecked
    \/ RecvHeader
    \/ RecvHeaderEof
    \/ RecvPayload
    \/ RecvPayloadEof

SpecLoop == Init /\ [][LoopNext]_vars

(* A Transport stub loaded with an arbitrary byte stream, whose recv_exact *)
(* returns the next bytes or fails.                                        *)
RawNext ==
    \/ Preload
    \/ RecvHeader
    \/ RecvHeaderFail
    \/ RecvPayload
    \/ RecvPayloadFail

SpecRaw == Init /\ [][RawNext]_vars

(* recv_frame, second step, on a Transport that breaks the contract:       *)
(* recv_exact returns k bytes, k other than the header.length asked for.   *)
RecvPayloadWrong ==
    \E k \in 0..Len(stream) :
        /\ pc = "payload"
        /\ Alive
        /\ ~LenIs(k, hdr.length)
        /\ LET payload == SubSeq(stream, 1, k)
           IN /\ stream' = SubSeq(stream, k + 1, Len(stream))
              /\ calls' = Append(calls, Call("recv_exact", hdr.length, Ok(payload)))
              /\ prev' = result
              /\ result' = Done("recv_frame", NoFrame, start, decode_frame(hdr, payload))
        /\ pc' = "idle"
        /\ hdr' = NoHeader
        /\ start' = <<>>
        /\ UNCHANGED <<cvars, gvars>>

(* A Transport stub whose recv_exact may return a payload of any size *)
BadNext ==
    \/ Preload
    \/ RecvHeader
    \/ RecvPayload
    \/ RecvPayloadWrong

SpecBad == Init /\ [][BadNext]_vars

(* recv_frame calls in a row on a loopback stub loaded block-wise *)
BlocksNext ==
    \/ PreloadBlock
    \/ RecvHeader
    \/ RecvHeaderEof
    \/ RecvPayload
    \/ RecvPayloadEof

SpecBlocks == Init /\ [][BlocksNext]_vars

---------------------------------------------------------------------------
(* Several frames in flight on the loopback Transport *)

(* Frames sent in a row: three kinds, every payload *)
SeqKinds == {"Caps", "PushBlocks", "Pong"}
SeqFrames == {f \in ValidFrames : f.header.flags = 0 /\ f.header.kind \in SeqKinds}

recv_frame_on_peek(s) ==
    IF Len(s) < HeaderLen
    THEN [val |-> Propagate("Eof"), rest |-> s,
          calls |-> <<Call("recv_exact", U32Of(HeaderLen), Err("Eof"))>>]
    ELSE LET hdr_bytes == SubSeq(s, 1, HeaderLen)
             s1 == SubSeq(s, HeaderLen + 1, Len(s))
             step == after_header(hdr_bytes)
             c1 == Call("recv_exact", U32Of(HeaderLen), Ok(hdr_bytes))
         IN IF step.pc = "idle"
            THEN [val |-> step.val, rest |-> s1, calls |-> <<c1>>]
            ELSE IF ~AtMost(step.hdr.length, Len(s1))
            THEN [val |-> Propagate("Eof"), rest |-> s1,
                  calls |-> <<c1, Call("recv_exact", step.hdr.length, Err("Eof"))>>]
            ELSE LET payload == SubSeq(s1, 1, USize(step.hdr.length))
                 IN [val |-> decode_frame(step.hdr, payload),
                     rest |-> s1,
                     calls |-> <<c1, Call("recv_exact", step.hdr.length, Ok(payload))>>]

(* recv_frame(t) as one step on a loopback Transport holding s: the value  *)
(* it returns, the bytes it leaves and the Transport calls it makes.       *)
recv_frame_on(s) ==
    IF Len(s) < HeaderLen
    THEN [val |-> Propagate("Eof"), rest |-> s,
          calls |-> <<Call("recv_exact", U32Of(HeaderLen), Err("Eof"))>>]
    ELSE LET hdr_bytes == SubSeq(s, 1, HeaderLen)
             s1 == SubSeq(s, HeaderLen + 1, Len(s))
             step == after_header(hdr_bytes)
             c1 == Call("recv_exact", U32Of(HeaderLen), Ok(hdr_bytes))
         IN IF step.pc = "idle"
            THEN [val |-> step.val, rest |-> s1, calls |-> <<c1>>]
            ELSE IF ~AtMost(step.hdr.length, Len(s1))
            THEN [val |-> Propagate("Eof"), rest |-> s1,
                  calls |-> <<c1, Call("recv_exact", step.hdr.length, Err("Eof"))>>]
            ELSE LET payload == SubSeq(s1, 1, USize(step.hdr.length))
                 IN [val |-> decode_frame(step.hdr, payload),
                     rest |-> SubSeq(s1, USize(step.hdr.length) + 1, Len(s1)),
                     calls |-> <<c1, Call("recv_exact", step.hdr.length, Ok(payload))>>]

(* send_frame in a row of sends, before the first recv_frame *)
SeqSend ==
    \E frame \in SeqFrames :
        /\ pc = "idle"
        /\ got = <<>>
        /\ Len(sent) < MaxFrames
        /\ stream' = stream \o encode_frame(frame)
        /\ calls' = send_calls(frame, Ok(Unit))
        /\ prev' = NoResult
        /\ result' = Done("send_frame", frame, stream, Ok(Unit))
        /\ sent' = Append(sent, frame)
        /\ UNCHANGED <<pc, hdr, start, got, cvars>>

(* recv_frame, the whole call, once for each frame sent *)
SeqRecv ==
    /\ pc = "idle"
    /\ Len(got) < Len(sent)
    /\ LET r == recv_frame_on(stream)
       IN /\ stream' = r.rest
          /\ calls' = r.calls
          /\ prev' = NoResult
          /\ result' = Done("recv_frame", NoFrame, stream, r.val)
          /\ got' = Append(got, r.val)
    /\ UNCHANGED <<pc, hdr, start, sent, cvars>>

SeqNext ==
    \/ SeqSend
    \/ SeqRecv

SpecSeq == Init /\ [][SeqNext]_vars

---------------------------------------------------------------------------
(* Claims about the codec functions, checked under SpecCodec *)

\* C3: header round trip: decode_frame_header(encode_frame_header(h)) returns
\* Ok(h) for every header h, over all 8 kinds, the flags and the u32 lengths
\* (0 and u32::MAX included).
C3_HeaderRoundTrip ==
    cop = "header_round_trip" => cout.back = Ok(cin)

C3_Witness ==
    /\ cop = "header_round_trip"
    /\ cin = FrameHeader("Pong", 255, U32Max)
    /\ cout.wire = <<8, 255, 255, 255, 255, 255>>
    /\ cout.back = Ok(cin)

\* C4: decode_frame_header returns InvalidFrame for every buffer shorter than
\* 6 bytes and for every buffer whose first byte is not in 1..8; for every
\* buffer of at least 6 bytes whose first byte is in 1..8 it succeeds, flags
\* being byte 1 and length the big-endian value of bytes 2-5.
C4_DecodeHeader ==
    cop = "decode_frame_header" =>
        IF Len(cin) < 6 \/ cin[1] \notin 1..8
        THEN cout = Err(InvalidFrame)
        ELSE /\ IsOk(cout)
             /\ cout.val.flags = cin[2]
             /\ cout.val.length = <<cin[3] * 256 + cin[4], cin[5] * 256 + cin[6]>>

C4_Witness ==
    /\ cop = "decode_frame_header"
    /\ Len(cin) >= 6
    /\ cin[1] = 9
    /\ cout = Err(InvalidFrame)

RoundTripOps ==
    {"hello_round_trip", "get_blocks_round_trip", "push_blocks_round_trip",
     "get_object_round_trip", "push_object_round_trip"}

\* C5: payload round trip: for Hello, GetBlocks, PushBlocks, GetObject and
\* PushObject, decode(encode(p)) returns Ok(p); GetBlocks keeps the number and
\* the order of the ids (the empty list included) and Hello keeps node, major
\* and minor at their maximum values.
C5_PayloadRoundTrip ==
    cop \in RoundTripOps =>
        /\ cout.back = Ok(cin)
        /\ cop = "get_blocks_round_trip" =>
              /\ Len(cout.back.val.ids) = Len(cin.ids)
              /\ \A i \in 1..Len(cin.ids) : cout.back.val.ids[i] = cin.ids[i]

C5_Witness ==
    /\ cop = "get_blocks_round_trip"
    /\ Len(cin.ids) = 2
    /\ cin.ids[1] # cin.ids[2]
    /\ cin.ids[2] = U64Max
    /\ cout.back = Ok(cin)

\* C6: payload rejection: decode_hello returns DecodeError for every buffer
\* shorter than 12 bytes, decode_get_blocks for every buffer whose length is
\* not a multiple of 8, decode_get_object for every buffer whose length is not
\* 8; decode_push_blocks and decode_push_object never fail.
C6_PayloadRejection ==
    /\ cop = "decode_hello" /\ Len(cin) < 12 => cout = Err(DecodeError)
    /\ cop = "decode_get_blocks" /\ Len(cin) % 8 # 0 => cout = Err(DecodeError)
    /\ cop = "decode_get_object" /\ Len(cin) # 8 => cout = Err(DecodeError)
    /\ cop \in {"decode_push_blocks", "decode_push_object"} => cout = Ok([raw |-> cin])

C6_Witness ==
    /\ cop = "decode_get_object"
    /\ Len(cin) = 9
    /\ cout = Err(DecodeError)

\* C7: a payload decoder of a fixed-length kind returns DecodeError whenever
\* the buffer has the wrong length: decode_hello on every buffer whose length
\* is not exactly 12, decode_get_object on every buffer whose length is not 8.
C7_FixedLengthRejection ==
    /\ cop = "decode_hello" /\ Len(cin) # 12 => cout = Err(DecodeError)
    /\ cop = "decode_get_object" /\ Len(cin) # 8 => cout = Err(DecodeError)

---------------------------------------------------------------------------
(* Claims about send_frame and recv_frame *)

IsErrOf(r, e) == r.tag = "Err" /\ r.val = e
IsOkOf(r, v) == r.tag = "Ok" /\ r.val = v
Last(s) == s[Len(s)]

(* calls holds the Transport calls of the invocation recorded in result *)
SendDone == pc = "idle" /\ result.fn = "send_frame"
RecvDone == pc = "idle" /\ result.fn = "recv_frame"

\* C1: for every valid Frame f (any kind, any flags, header.length equal to
\* the payload byte count, empty payloads included), send_frame(f) on an empty
\* loopback Transport followed by recv_frame returns Ok(f).  Checked under
\* SpecLoop.
C1_LoopbackRoundTrip ==
    (/\ RecvDone
     /\ prev.fn = "send_frame"
     /\ IsOk(prev.val)
     /\ prev.pre = <<>>
     /\ Valid(prev.frame))
    => IsOkOf(result.val, prev.frame)

C1_Witness ==
    /\ RecvDone
    /\ prev.fn = "send_frame"
    /\ prev.pre = <<>>
    /\ prev.frame = Frame(FrameHeader("Hello", 255, U32Of(2)), <<0, 1>>)
    /\ IsOkOf(result.val, prev.frame)
    /\ stream = <<>>

\* C2: every recv_frame, on any byte stream and any behaviour the Transport
\* contract allows, ends in an error or in a complete Frame: its kind is one
\* of the 8 kinds and its payload has exactly header.length bytes.  Checked
\* under SpecRaw.
C2_NoPartialFrame ==
    RecvDone =>
        \/ IsErr(result.val)
        \/ /\ IsOk(result.val)
           /\ result.val.val.header.kind \in FrameKinds
           /\ LenIs(Len(result.val.val.payload), result.val.val.header.length)

C2_Witness ==
    /\ RecvDone
    /\ IsOk(result.val)
    /\ result.val.val.header.kind = "Caps"
    /\ Len(result.val.val.payload) = 2
    /\ result.pre = <<2, 9, 0, 0, 0, 2, 9, 0>>

\* C8: recv_frame reads in a fixed order: one recv_exact(6) for the header,
\* then, only if the header decodes, one recv_exact(header.length) for the
\* payload; on a malformed header it returns InvalidFrame without a payload
\* read; it never issues more than these two reads.  Checked under SpecRaw.
C8_ReadOrder ==
    (pc = "payload" \/ RecvDone) =>
        /\ Len(calls) \in 1..2
        /\ pc = "payload" => Len(calls) = 1 /\ IsOk(calls[1].res)
        /\ calls[1].op = "recv_exact"
        /\ calls[1].arg = U32Of(6)
        /\ Len(calls) = 2 =>
              /\ IsOk(calls[1].res)
              /\ IsOk(decode_frame_header(calls[1].res.val))
              /\ calls[2].op = "recv_exact"
              /\ calls[2].arg = decode_frame_header(calls[1].res.val).val.length
        /\ IsOk(calls[1].res) =>
              IF IsErr(decode_frame_header(calls[1].res.val))
              THEN Len(calls) = 1 /\ IsErrOf(result.val, InvalidFrame)
              ELSE pc = "idle" => Len(calls) = 2

C8_Witness ==
    /\ RecvDone
    /\ Len(calls) = 1
    /\ IsOk(calls[1].res)
    /\ calls[1].res.val[1] = 9
    /\ IsErrOf(result.val, InvalidFrame)

\* C9: each send_frame issues exactly one Transport send, whose buffer is the
\* 6-byte encoded header followed by the payload bytes (6 + payload byte count
\* in all); the frame is never split over several sends and never sent again
\* after a failure.  Checked under Spec.
C9_OneSend ==
    SendDone =>
        /\ Len(calls) = 1
        /\ calls[1].op = "send"
        /\ Len(calls[1].arg) = 6 + Len(result.frame.payload)
        /\ SubSeq(calls[1].arg, 1, 6) = encode_frame_header(result.frame.header)
        /\ SubSeq(calls[1].arg, 7, Len(calls[1].arg)) = result.frame.payload

C9_Witness ==
    /\ SendDone
    /\ Len(calls) = 1
    /\ calls[1].arg = <<4, 255, 0, 0, 0, 2, 7, 7>>
    /\ result.frame.header.kind = "PushBlocks"
    /\ IsOk(result.val)

\* C10: Transport errors are propagated unchanged and never retried: when
\* send fails, send_frame returns that error; when recv_exact fails in the
\* header read or in the payload read, recv_frame returns that error; the
\* failed call is the last Transport call of the invocation.  Checked under
\* Spec.
C10_ErrorsPropagated ==
    /\ \A i \in 1..Len(calls) : IsErr(calls[i].res) => i = Len(calls)
    /\ (SendDone \/ RecvDone) /\ calls # <<>> /\ IsErr(Last(calls).res)
          => /\ IsErr(result.val)
             /\ result.val.val = Last(calls).res.val
    /\ SendDone => result.val.tag = calls[1].res.tag

C10_Witness ==
    /\ RecvDone
    /\ Len(calls) = 2
    /\ IsErrOf(calls[2].res, "Timeout")
    /\ IsErrOf(result.val, "Timeout")

---------------------------------------------------------------------------
(* Claims about the wire layout, checked under SpecCodec *)

(* The kind codes of the wire format, written out *)
WireCode ==
    [k \in FrameKinds |->
        CASE k = "Hello" -> 1 [] k = "Caps" -> 2 [] k = "GetBlocks" -> 3
          [] k = "PushBlocks" -> 4 [] k = "GetObject" -> 5 [] k = "PushObject" -> 6
          [] k = "Ping" -> 7 [] k = "Pong" -> 8]

(* The big-endian bytes of a 16-bit limb *)
Hi(x) == x \div 256
Lo(x) == x % 256

BigEndian64(x) ==
    <<Hi(x[1]), Lo(x[1]), Hi(x[2]), Lo(x[2]), Hi(x[3]), Lo(x[3]), Hi(x[4]), Lo(x[4])>>

\* C11: encode_frame_header emits exactly 6 bytes in fixed order: byte 0 is
\* the kind code (1=Hello 2=Caps 3=GetBlocks 4=PushBlocks 5=GetObject
\* 6=PushObject 7=Ping 8=Pong, a bijection between the 8 kinds and 1..8 and
\* the mapping decode_frame_header uses), byte 1 is flags unchanged, bytes 2-5
\* are length in big-endian.
C11_HeaderLayout ==
    cop = "header_round_trip" =>
        /\ Len(cout.wire) = 6
        /\ cout.wire[1] = WireCode[cin.kind]
        /\ cout.wire[1] \in 1..8
        /\ \A k \in FrameKinds : WireCode[k] = cout.wire[1] => k = cin.kind
        /\ cout.wire[2] = cin.flags
        /\ SubSeq(cout.wire, 3, 6) =
              <<Hi(cin.length[1]), Lo(cin.length[1]), Hi(cin.length[2]), Lo(cin.length[2])>>
        /\ IsOk(cout.back)
        /\ cout.back.val.kind = cin.kind

C11_Witness ==
    /\ cop = "header_round_trip"
    /\ cin = FrameHeader("GetObject", 128, <<1, 256>>)
    /\ cout.wire = <<5, 128, 0, 1, 1, 0>>

\* C12: the payload encoders produce fixed sizes and layouts: encode_hello
\* yields 12 bytes (node as 8 big-endian bytes, then major as 2, then minor as
\* 2); encode_get_blocks yields 8 x len(ids) bytes, the i-th group of 8 being
\* the big-endian i-th id; encode_get_object yields 8 bytes; encode_push_blocks
\* and encode_push_object yield the raw bytes unchanged.
C12_PayloadLayout ==
    /\ cop = "hello_round_trip" =>
          /\ Len(cout.wire) = 12
          /\ SubSeq(cout.wire, 1, 8) = BigEndian64(cin.node)
          /\ SubSeq(cout.wire, 9, 10) = <<Hi(cin.version.major), Lo(cin.version.major)>>
          /\ SubSeq(cout.wire, 11, 12) = <<Hi(cin.version.minor), Lo(cin.version.minor)>>
    /\ cop = "get_blocks_round_trip" =>
          /\ Len(cout.wire) = 8 * Len(cin.ids)
          /\ \A i \in 1..Len(cin.ids) :
                SubSeq(cout.wire, 8 * (i - 1) + 1, 8 * i) = BigEndian64(cin.ids[i])
    /\ cop = "get_object_round_trip" =>
          /\ Len(cout.wire) = 8
          /\ cout.wire = BigEndian64(cin.id)
    /\ cop \in {"push_blocks_round_trip", "push_object_round_trip"} =>
          cout.wire = cin.raw

C12_Witness ==
    /\ cop = "hello_round_trip"
    /\ cin = HelloPayload(<<0, 0, 0, 258>>, 1, 256)
    /\ cout.wire = <<0, 0, 0, 0, 0, 0, 1, 2, 0, 1, 1, 0>>

---------------------------------------------------------------------------
(* Claims about the length check of decode_frame *)

\* C13: under a Transport that honours the recv_exact contract (exactly n
\* bytes or a failure), the length check of decode_frame never makes
\* recv_frame fail: recv_frame returns InvalidFrame only when the header bytes
\* are malformed, never after a payload read.  Checked under SpecRaw.
C13_LengthCheckNeverFails ==
    RecvDone /\ IsErrOf(result.val, InvalidFrame) =>
        /\ Len(calls) = 1
        /\ IsOk(calls[1].res)
        /\ calls[1].res.val[1] \notin 1..8

C13_Witness ==
    /\ RecvDone
    /\ Len(calls) = 2
    /\ calls[2].arg = U32Of(2)
    /\ IsOk(calls[2].res)
    /\ Len(calls[2].res.val) = 2
    /\ IsOk(result.val)
    /\ result.val.val.payload = calls[2].res.val

\* C14: decode_frame(header, payload) returns InvalidFrame exactly when the
\* payload's byte count differs from header.length, and otherwise a Frame
\* holding that header and that payload unchanged; so when a Transport breaks
\* the contract and returns a payload of the wrong size, recv_frame returns
\* InvalidFrame and no Frame.  Checked under SpecBad.
C14_LengthCheck ==
    RecvDone /\ Len(calls) = 2 /\ IsOk(calls[2].res) =>
        LET h == decode_frame_header(calls[1].res.val).val
            p == calls[2].res.val
        IN IF h.length[1] = 0 /\ h.length[2] = Len(p)
           THEN IsOkOf(result.val, [header |-> h, payload |-> p])
           ELSE IsErrOf(result.val, InvalidFrame)

C14_Witness ==
    /\ RecvDone
    /\ Len(calls) = 2
    /\ calls[2].arg = <<2, 2>>
    /\ IsOk(calls[2].res)
    /\ Len(calls[2].res.val) = 2
    /\ IsErrOf(result.val, InvalidFrame)

---------------------------------------------------------------------------
(* Claims about the byte stream *)

\* C15: frames f1..fn, each with header.length equal to its payload's byte
\* count, sent by n successive send_frame calls on an empty FIFO loopback
\* Transport are returned by n successive recv_frame calls as Ok(f1), ...,
\* Ok(fn) in that order, and the Transport's buffer is empty afterwards,
\* whatever the payloads hold.  Checked under SpecSeq.
C15_FrameOrder ==
    /\ Len(got) <= Len(sent)
    /\ \A i \in 1..Len(got) : IsOkOf(got[i], sent[i])
    /\ got # <<>> /\ Len(got) = Len(sent) => stream = <<>>

C15_Witness ==
    /\ Len(sent) = 2
    /\ Len(got) = 2
    /\ sent[1] = Frame(FrameHeader("PushBlocks", 0, U32Of(2)), <<7, 7>>)
    /\ sent[2] = Frame(FrameHeader("Caps", 0, U32Of(1)), <<0>>)
    /\ IsOkOf(got[1], sent[1])
    /\ IsOkOf(got[2], sent[2])
    /\ stream = <<>>

\* C16: a recv_frame that returns Ok has consumed exactly 6 + header.length
\* bytes of the Transport's stream: the 6 bytes at its position when the
\* call began, then the next header.length bytes, in that order; every later
\* byte is still in the stream, unchanged.  Checked under SpecBlocks.
C16_BytesConsumed ==
    RecvDone /\ IsOk(result.val) =>
        LET n == USize(result.val.val.header.length)
        IN /\ Len(calls) = 2
           /\ calls[1].res = Ok(SubSeq(result.pre, 1, HeaderLen))
           /\ calls[2].res = Ok(SubSeq(result.pre, HeaderLen + 1, HeaderLen + n))
           /\ Len(result.pre) = HeaderLen + n + Len(stream)
           /\ stream = SubSeq(result.pre, HeaderLen + n + 1, Len(result.pre))

C16_Witness ==
    /\ RecvDone
    /\ result.pre = <<2, 0, 0, 0, 0, 2, 9, 0, 0, 0, 0, 6>>
    /\ IsOkOf(result.val, Frame(FrameHeader("Caps", 0, U32Of(2)), <<9, 0>>))
    /\ stream = <<0, 0, 0, 6>>

(* The recv_frame recorded in r was handed 6 bytes with an unknown kind *)
RejectedKind(r) ==
    /\ r.fn = "recv_frame"
    /\ Len(r.pre) >= HeaderLen
    /\ IsErr(decode_frame_header(SubSeq(r.pre, 1, HeaderLen)))

\* C17: a recv_frame that fails because the 6 header bytes carry an unknown
\* kind byte has consumed those 6 bytes and no others (they are not put
\* back, and no payload byte is read); the recv_frame after it starts at the
\* 7th byte of the rejected frame.  Checked under SpecBlocks.
C17_NoRewind ==
    /\ RecvDone /\ RejectedKind(result) =>
          /\ IsErrOf(result.val, InvalidFrame)
          /\ calls = <<Call("recv_exact", U32Of(HeaderLen), Ok(SubSeq(result.pre, 1, HeaderLen)))>>
          /\ stream = SubSeq(result.pre, HeaderLen + 1, Len(result.pre))
    /\ RecvDone /\ RejectedKind(prev) =>
          /\ result.pre = SubSeq(prev.pre, HeaderLen + 1, Len(prev.pre))
          /\ Len(result.pre) >= HeaderLen =>
                calls[1].res = Ok(SubSeq(prev.pre, HeaderLen + 1, 2 * HeaderLen))

C17_Witness ==
    /\ RecvDone
    /\ RejectedKind(prev)
    /\ prev.pre = <<9, 0, 0, 0, 0, 6, 2, 0, 0, 0, 0, 2, 9, 0, 0, 0, 0, 0>>
    /\ IsErrOf(prev.val, InvalidFrame)
    /\ IsOkOf(result.val, Frame(FrameHeader("Caps", 0, U32Of(2)), <<9, 0>>))
    /\ stream = <<0, 0, 0, 0>>

\* C18: send_frame does not compare header.length with the payload's byte
\* count and does not return InvalidFrame: for a Frame whose header.length
\* is wrong it still sends the header, header.length as given, followed by
\* the whole payload.  On a loopback Transport that was empty, when
\* header.length is smaller than the payload's byte count the recv_frame that
\* follows returns a Frame with the first header.length payload bytes, and
\* the other payload bytes stay in the stream.  Checked under SpecLoop.
C18_NoLengthCheckOnSend ==
    /\ SendDone =>
          LET h == result.frame.header
              wire == <<KindByte(h.kind), h.flags>> \o encode_u32(h.length) \o result.frame.payload
          IN /\ IsOkOf(result.val, Unit)
             /\ calls = <<Call("send", wire, Ok(Unit))>>
             /\ stream = result.pre \o wire
    /\ RecvDone /\ prev.fn = "send_frame" /\ prev.pre = <<>> =>
          LET h == prev.frame.header
              p == prev.frame.payload
          IN AtMost(h.length, Len(p)) /\ ~LenIs(Len(p), h.length) =>
                /\ IsOkOf(result.val, Frame(h, SubSeq(p, 1, USize(h.length))))
                /\ stream = SubSeq(p, USize(h.length) + 1, Len(p))

C18_Witness ==
    /\ RecvDone
    /\ prev.fn = "send_frame"
    /\ prev.pre = <<>>
    /\ prev.frame = Frame(FrameHeader("Hello", 0, U32Of(1)), <<0, 1>>)
    /\ IsOkOf(result.val, Frame(FrameHeader("Hello", 0, U32Of(1)), <<0>>))
    /\ stream = <<1>>

=============================================================================
